---- MODULE Spec2Model ----
(***************************************************************************)
(* GramOthi offline lecture pipeline and offline sync engine.              *)
(*                                                                         *)
(* Spec      : BackgroundTaskManager.process_lecture_bundle and the two    *)
(*             places that start it (upload_lecture's background task and  *)
(*             process_pending_bundles), src/background_tasks.py and       *)
(*             src/routes.py.                                              *)
(* SyncSpec  : OfflineSyncService (store, sync, resolve_conflict, retry),  *)
(*             src/Backend/app/services/sync_service.py.                   *)
(* DownloadSpec : start_bundle_download, download_bundle_file and the      *)
(*             DownloadManager.download_bundle coroutine, src/routes.py    *)
(*             and src/download_manager.py.                                *)
(* TimelineSpec : MediaProcessor._create_slide_timeline with               *)
(*             _detect_slide_changes and _create_accurate_timeline,        *)
(*             src/media_processor.py.                                     *)
(* QuizRaceSpec : concurrent calls of                                      *)
(*             OfflineSyncService._process_quiz_response.                  *)
(***************************************************************************)
EXTENDS Integers, Sequences, FiniteSets, TLC

\* ---------------------------------------------------------------- bounds
MaxBundles == 2
MaxRuns == 3

Bundles == 1..MaxBundles
Runs == 1..MaxRuns

\* ------------------------------------------------------ program constants
\* total_tasks = len(tasks), the list literal of four tasks
TotalTasks == 4
\* TaskType of the i-th task of the list built by process_lecture_bundle
TaskTypes ==
  <<"audio_compression", "slide_optimization", "timeline_creation", "bundle_creation">>
Stages == 1..TotalTasks

\* error texts a stage can report (result["error"] or str(e))
Errors == {"ffmpeg: no audio stream", "disk full"}

\* f"Failed to complete {total_tasks - completed_tasks} tasks"
FailedToComplete(n) ==
  <<"Failed to complete 1 tasks", "Failed to complete 2 tasks",
    "Failed to complete 3 tasks", "Failed to complete 4 tasks">>[n]

\* ------------------------------------------------------------- rationals
\* processing_progress is a float; it is kept as a fraction <<num, den>>
RatEq(a, b) == a[1] * b[2] = b[1] * a[2]
RatLeq(a, b) == a[1] * b[2] <= b[1] * a[2]
Zero == <<0, 1>>
One == <<1, 1>>

VARIABLES
  bundles,    \* LectureBundle rows, by id
  timelines,  \* number of SlideTimeline rows, by bundle id
  queue,      \* persisted ProcessingQueue rows of a run: task_status per stage
  runs,       \* invocations of process_lecture_bundle: locals and position
  loop        \* the run the event loop is executing, 0 when it is idle

pipeVars == <<bundles, timelines, queue, runs, loop>>

VARIABLES
  acts,       \* OfflineActivity rows, in id order
  progress,   \* SlideProgress / RecordingProgress / StudentProgress rows
  responses,  \* Response rows (answers), by <<student, quiz>>
  sessions,   \* number of LearningSession rows, by student
  cur,        \* the sync_offline_activities call in progress
  reply,      \* the last finished call and its response
  calls,      \* number of store / sync / resolve / update requests so far
  retries     \* number of retry requests so far

syncVars == <<acts, progress, responses, sessions, cur, reply, calls, retries>>

VARIABLES
  downloads,  \* BundleDownload rows, in id order
  transfers,  \* the download_bundle coroutine of each row
  offline,    \* the offline directory of each download id
  file,       \* the bundle archive on disk
  dlreply,    \* the last response of a download route
  dlcalls     \* number of download requests so far

dlVars == <<downloads, transfers, offline, file, dlreply, dlcalls>>

\* ------------------------------------------------------------ initial state
NoBundle ==
  [status |-> "absent", progress |-> Zero, error |-> "none", outputs |-> "none"]

NoRun ==
  [pc |-> "unused", bundle |-> 0, trigger |-> "none", idx |-> 0, completed |-> 0,
   task |-> [i \in Stages |-> "none"], err |-> [i \in Stages |-> "none"],
   started |-> <<>>, media |-> "none"]

PipeInit ==
  /\ bundles = [b \in Bundles |-> NoBundle]
  /\ timelines = [b \in Bundles |-> 0]
  /\ queue = [r \in Runs |-> [i \in Stages |-> "none"]]
  /\ runs = [r \in Runs |-> NoRun]
  /\ loop = 0

FreeRuns == {r \in Runs : runs[r].pc = "unused"}

\* the lowest unused run slot
NextRun == CHOOSE r \in FreeRuns : \A q \in FreeRuns : r <= q

\* A coroutine runs on the event loop until it suspends; no await inside
\* process_lecture_bundle suspends (every awaited coroutine returns without
\* yielding), so a started run keeps the loop until it returns.
CanStepYielding(r) == TRUE

CanStep(r) == loop = 0 \/ loop = r

\* ------------------------------------------------------------- operations
\* upload_lecture: the bundle row is created PENDING and the processing run
\* is added as a background task of the request
UploadLecture(b) ==
  /\ loop = 0
  /\ bundles[b].status = "absent"
  /\ \A c \in Bundles : c < b => bundles[c].status # "absent"
  /\ FreeRuns # {}
  /\ bundles' = [bundles EXCEPT ![b].status = "pending"]
  /\ runs' = [runs EXCEPT ![NextRun] =
                [NoRun EXCEPT !.pc = "scheduled", !.bundle = b, !.trigger = "upload"]]
  /\ UNCHANGED <<timelines, queue, loop>>

PendingBundles == {b \in Bundles : bundles[b].status = "pending"}

RECURSIVE ScheduleAll(_, _)
ScheduleAll(rs, bs) ==
  IF bs = {} THEN rs
  ELSE LET b == CHOOSE x \in bs : \A y \in bs : x <= y
           free == {r \in Runs : rs[r].pc = "unused"}
           r == CHOOSE x \in free : \A y \in free : x <= y
       IN ScheduleAll([rs EXCEPT ![r] =
                         [NoRun EXCEPT !.pc = "scheduled", !.bundle = b,
                                       !.trigger = "pending_scan"]],
                      bs \ {b})

\* process_pending_bundles: one asyncio task per bundle that is PENDING
ProcessPendingBundles ==
  /\ loop = 0
  /\ PendingBundles # {}
  /\ Cardinality(PendingBundles) <= Cardinality(FreeRuns)
  /\ runs' = ScheduleAll(runs, PendingBundles)
  /\ UNCHANGED <<bundles, timelines, queue, loop>>

\* _create_processing_task: a row with task_status QUEUED, committed by its
\* own session; the returned object is detached from every session
CreateProcessingTasks == [i \in Stages |-> "queued"]

\* process_lecture_bundle, up to the task loop
StartRun(r) ==
  /\ runs[r].pc = "scheduled"
  /\ CanStep(r)
  /\ bundles' = [bundles EXCEPT ![runs[r].bundle].status = "processing",
                                ![runs[r].bundle].progress = Zero]
  /\ queue' = [queue EXCEPT ![r] = CreateProcessingTasks]
  /\ runs' = [runs EXCEPT ![r].pc = "mark", ![r].idx = 1, ![r].completed = 0,
                          ![r].task = CreateProcessingTasks]
  /\ loop' = r
  /\ UNCHANGED timelines

\* db.commit() of the run's session after a change to a task object: the task
\* objects belong to no session, so the persisted row keeps its status
CommitTaskPersisting(row, i, st) == [row EXCEPT ![i] = st]

CommitTask(row, i, st) == row

\* task.task_status = RUNNING; db.commit()
MarkRunning(r) ==
  /\ runs[r].pc = "mark"
  /\ CanStep(r)
  /\ runs' = [runs EXCEPT ![r].pc = "exec",
                          ![r].task[runs[r].idx] = "running",
                          ![r].started = Append(@, runs[r].idx)]
  /\ queue' = [queue EXCEPT ![r] = CommitTask(@, runs[r].idx, "running")]
  /\ UNCHANGED <<bundles, timelines, loop>>

\* bundle.processing_progress = completed_tasks / total_tasks
StageProgressStale(completed) == Zero

StageProgress(completed) == <<completed, TotalTasks>>

\* the loop's `break` after a failed task
OnFailureContinue(run) ==
  IF run.idx < TotalTasks
  THEN [run EXCEPT !.pc = "mark", !.idx = @ + 1]
  ELSE [run EXCEPT !.pc = "final"]

OnFailure(run) == [run EXCEPT !.pc = "final"]

\* the next iteration of `for task in tasks`
OnSuccess(run) ==
  IF run.idx < TotalTasks
  THEN [run EXCEPT !.pc = "mark", !.idx = @ + 1]
  ELSE [run EXCEPT !.pc = "final"]

\* result = await _execute_processing_task(...), success branch
TaskSucceeds(r) ==
  /\ runs[r].pc = "exec"
  /\ CanStep(r)
  /\ LET i == runs[r].idx
         c == runs[r].completed + 1
     IN /\ runs' = [runs EXCEPT ![r] =
                      OnSuccess([runs[r] EXCEPT !.task[i] = "completed", !.completed = c])]
        /\ bundles' = [bundles EXCEPT ![runs[r].bundle].progress = StageProgress(c)]
        /\ queue' = [queue EXCEPT ![r] = CommitTask(@, i, "completed")]
  /\ UNCHANGED <<timelines, loop>>

\* result["success"] false, or an exception inside the loop body
TaskFails(r, e) ==
  /\ runs[r].pc = "exec"
  /\ CanStep(r)
  /\ LET i == runs[r].idx
     IN /\ runs' = [runs EXCEPT ![r] =
                      OnFailure([runs[r] EXCEPT !.task[i] = "failed", !.err[i] = e])]
        /\ queue' = [queue EXCEPT ![r] = CommitTask(@, i, "failed")]
  /\ UNCHANGED <<bundles, timelines, loop>>

\* the bundle fields copied from processing_result when it reports success
SaveResultsAlways(b, ok) == [b EXCEPT !.outputs = "assembled"]

SaveResults(b, ok) == IF ok THEN [b EXCEPT !.outputs = "assembled"] ELSE b

\* the steps of MediaProcessor.process_lecture_bundle; a step that raises
\* ends the call with {"success": False} and the later steps are not run
MediaSteps == {"audio", "slides", "timeline", "bundle"}

\* "Update final bundle status": every task completed; ok is the "success" of
\* MediaProcessor.process_lecture_bundle's result and step the step that
\* raised when it is false
FinishCompleted(r, ok, step) ==
  /\ runs[r].pc = "final"
  /\ CanStep(r)
  /\ runs[r].completed = TotalTasks
  /\ bundles' = [bundles EXCEPT ![runs[r].bundle] =
                   SaveResults([@ EXCEPT !.status = "completed", !.progress = One], ok)]
  /\ timelines' = [timelines EXCEPT ![runs[r].bundle] = IF ok THEN @ + 1 ELSE @]
  /\ runs' = [runs EXCEPT ![r].pc = "done",
                          ![r].media = IF ok THEN "assembled" ELSE step]
  /\ loop' = 0
  /\ UNCHANGED queue

\* "Update final bundle status": some task did not complete
FinishFailed(r) ==
  /\ runs[r].pc = "final"
  /\ CanStep(r)
  /\ runs[r].completed # TotalTasks
  /\ bundles' = [bundles EXCEPT
                   ![runs[r].bundle].status = "failed",
                   ![runs[r].bundle].error = FailedToComplete(TotalTasks - runs[r].completed)]
  /\ runs' = [runs EXCEPT ![r].pc = "done"]
  /\ loop' = 0
  /\ UNCHANGED <<timelines, queue>>

\* the persisted ProcessingQueue rows of bundle b, as <<run, stage>>
TasksOf(b) ==
  {rs \in Runs \X Stages : runs[rs[1]].bundle = b /\ queue[rs[1]][rs[2]] # "none"}

\* the route is a coroutine on the same event loop: it is served only while
\* no run holds the loop
CanPoll == loop = 0

\* GET /lectures/{bundle_id}/progress: the bundle's processing_progress and
\* the counts over the ProcessingQueue rows of the bundle
get_processing_progress(b) ==
  [overall_progress |-> bundles[b].progress,
   tasks_completed |->
     Cardinality({rs \in TasksOf(b) : queue[rs[1]][rs[2]] = "completed"}),
   total_tasks |-> Cardinality(TasksOf(b)),
   status |-> bundles[b].status]

PipeNext ==
  \/ \E b \in Bundles : UploadLecture(b)
  \/ ProcessPendingBundles
  \/ \E r \in Runs : StartRun(r)
  \/ \E r \in Runs : MarkRunning(r)
  \/ \E r \in Runs : TaskSucceeds(r)
  \/ \E r \in Runs, e \in Errors : TaskFails(r, e)
  \/ \E r \in Runs, ok \in BOOLEAN, step \in MediaSteps : FinishCompleted(r, ok, step)
  \/ \E r \in Runs : FinishFailed(r)

\* ================================================================= sync
\* ---------------------------------------------------------------- bounds
MaxCalls == 3
MaxRetries == 1
MaxBatch == 2
MaxTime == 0

\* the owner, the subject (slide, quiz, class) and the offline_id of the model
Users == {1}
Subjects == {1}
OfflineIds == {"a"}
Times == 0..MaxTime

\* ------------------------------------------------------------ activities
ProgTypes == {"slide_progress", "recording_progress", "student_progress"}

\* `valid_types` of the store route
Types == ProgTypes \cup {"quiz_response", "learning_session"}

\* An activity_data payload is the record [subject, value, amount,
\* created_at, inner].  A key the dict does not have is subject 0, value
\* "absent", amount 0 (the default of data.get), created_at NoTime.
\*   slide_progress      slide_id      status        time_spent
\*   recording_progress  recording_id  status        time_listened
\*   student_progress    class_id      status        progress_percentage
\*   quiz_response       quiz_id       answer        -
\*   learning_session    class_id      session_type  -
\* created_at, when present, is the ISO string of a time.  A payload may also
\* wrap an activity of its own: it then has the keys activity_type,
\* activity_data and offline_id too, and `inner` is <<that activity_data>>.
NoTime == 0 - 1

ValuesOf(t) ==
  CASE t = "quiz_response" -> {"A", "B"}
    [] t = "learning_session" -> {"self_study"}
    [] OTHER -> {"viewed"}

AmountsOf(t) == IF t \in ProgTypes THEN {1} ELSE {0}

\* payloads a client can put into a request, by type
PlainPayloads(t) ==
  [subject : Subjects \cup {0},
   value : ValuesOf(t) \cup {"absent"},
   amount : AmountsOf(t),
   created_at : Times \cup {NoTime},
   inner : {<<>>}]

Payloads(t) ==
  PlainPayloads(t) \cup {[p EXCEPT !.inner = <<p>>] : p \in PlainPayloads(t)}

\* the required fields of OfflineActivityBase
RequiredCreateFields == {"activity_type", "activity_data", "offline_id"}

\* the keys of the dict
Keys(data) ==
  (IF data.subject # 0 THEN {"subject"} ELSE {})
    \cup (IF data.value # "absent" THEN {"value"} ELSE {})
    \cup (IF data.amount # 0 THEN {"amount"} ELSE {})
    \cup (IF data.created_at # NoTime THEN {"created_at"} ELSE {})
    \cup (IF data.inner # <<>> THEN RequiredCreateFields ELSE {})

\* _validate_activity_data: the two required fields of the type are keys
validate_activity_data_lax(t, data) == t \in Types

validate_activity_data(t, data) ==
  IF t \in Types THEN {"subject", "value"} \subseteq Keys(data) ELSE FALSE

\* the columns of the three progress models
Columns(t) ==
  CASE t = "slide_progress" ->
         {"id", "student_id", "slide_id", "status", "time_spent", "viewed_at",
          "completed_at"}
    [] t = "recording_progress" ->
         {"id", "student_id", "recording_id", "status", "time_listened",
          "total_duration", "progress_percentage", "started_at", "completed_at"}
    [] t = "student_progress" ->
         {"id", "student_id", "class_id", "learning_objective_id", "status",
          "progress_percentage", "started_at", "completed_at", "last_activity"}

\* OfflineActivityCreate(**data): pydantic raises a ValidationError unless the
\* dict has the required fields of the schema
OfflineActivityCreate(data) ==
  IF RequiredCreateFields \subseteq Keys(data) THEN "ok" ELSE "ValidationError"

NoProgress == [exists |-> FALSE, status |-> "none", amount |-> 0, written |-> 0]

NoServerData == [status |-> "none", amount |-> 0]

NoSync == [active |-> FALSE, user |-> 0, count |-> 0, synced |-> {}, prev |-> {},
           synced_count |-> 0, conflict_count |-> 0, last |-> <<>>]

NoReply == [op |-> "none"]

SyncInit ==
  /\ acts = <<>>
  /\ progress = [k \in ProgTypes \X Users \X Subjects |-> NoProgress]
  /\ responses = [k \in Users \X Subjects |-> <<>>]
  /\ sessions = [u \in Users |-> 0]
  /\ cur = NoSync
  /\ reply = NoReply
  /\ calls = 0
  /\ retries = 0

\* the server tables an activity is applied to
Tables == [progress |-> progress, responses |-> responses, sessions |-> sessions]

Ok(tb) ==
  [kind |-> "success", error |-> "none", server_data |-> NoServerData, tables |-> tb]
Conflict(tb, sd, ct) ==
  [kind |-> "conflict", error |-> ct, server_data |-> sd, tables |-> tb]
Err(tb, e) ==
  [kind |-> "error", error |-> e, server_data |-> NoServerData, tables |-> tb]
Raise(tb, e) ==
  [kind |-> "raise", error |-> e, server_data |-> NoServerData, tables |-> tb]

\* `not x` of a field read with data.get
Falsy(x) == x \in {"absent", ""}
FalsyId(x) == x = 0

\* "existing_progress.updated_at and existing_progress.updated_at >
\*  data.get("created_at", datetime.min)": reading a column the model class
\* does not have raises AttributeError; a datetime compared with the string of
\* a JSON payload raises TypeError; against datetime.min the server is newer
ServerNewer(t, row, data) ==
  IF "updated_at" \notin Columns(t) THEN "AttributeError"
  ELSE IF data.created_at # NoTime THEN "TypeError"
  ELSE "newer"

\* ProgressService.update_slide_progress / update_recording_progress:
\* create the row, or set its status and add the time
update_progress(row, value, amt, t) ==
  IF ~row.exists
  THEN [exists |-> TRUE, status |-> value, amount |-> amt, written |-> t]
  ELSE [row EXCEPT !.status = value, !.amount = @ + amt, !.written = t]

\* _process_slide_progress and _process_recording_progress
process_time_progress(tb, u, a, t) ==
  LET data == a.data
      k == <<a.type, u, data.subject>>
  IN IF FalsyId(data.subject) \/ Falsy(data.value)
     THEN Err(tb, "Missing required progress data")
     ELSE IF tb.progress[k].exists
               /\ ServerNewer(a.type, tb.progress[k], data) \in {"AttributeError", "TypeError"}
     THEN Raise(tb, ServerNewer(a.type, tb.progress[k], data))
     ELSE IF tb.progress[k].exists /\ ServerNewer(a.type, tb.progress[k], data) = "newer"
     THEN Conflict(tb, [status |-> tb.progress[k].status,
                        amount |-> tb.progress[k].amount], "server_newer")
     ELSE Ok([tb EXCEPT !.progress[k] =
                update_progress(@, data.value, data.amount, t)])

\* _process_student_progress: the whole body is inside its own try
process_student_progress(tb, u, a, t) ==
  LET data == a.data
      k == <<a.type, u, data.subject>>
  IN IF FalsyId(data.subject) \/ Falsy(data.value)
     THEN Err(tb, "Missing required student progress data")
     ELSE IF tb.progress[k].exists
               /\ ServerNewer(a.type, tb.progress[k], data) \in {"AttributeError", "TypeError"}
     THEN Err(tb, ServerNewer(a.type, tb.progress[k], data))
     ELSE IF tb.progress[k].exists /\ ServerNewer(a.type, tb.progress[k], data) = "newer"
     THEN Conflict(tb, [status |-> tb.progress[k].status,
                        amount |-> tb.progress[k].amount], "server_newer")
     ELSE Ok([tb EXCEPT !.progress[k] =
                [exists |-> TRUE, status |-> data.value,
                 amount |-> data.amount, written |-> t]])

\* _process_quiz_response: any existing Response is a conflict
process_quiz_response(tb, u, a, t) ==
  LET data == a.data
      k == <<u, data.subject>>
  IN IF FalsyId(data.subject) \/ data.value = "absent"
     THEN Err(tb, "Missing required quiz response data")
     ELSE IF tb.responses[k] # <<>>
     THEN Conflict(tb, [status |-> tb.responses[k][1], amount |-> 0],
                   "duplicate_response")
     ELSE Ok([tb EXCEPT !.responses[k] = Append(@, data.value)])

\* _process_learning_session: ProgressService.start_learning_session adds a row
process_learning_session(tb, u, a, t) ==
  LET data == a.data
  IN IF FalsyId(data.subject) \/ Falsy(data.value)
     THEN Err(tb, "Missing required learning session data")
     ELSE Ok([tb EXCEPT !.sessions[u] = @ + 1])

\* _process_offline_activity: dispatch on the type; an exception of the
\* handler becomes an error result
process_offline_activity(tb, u, a, t) ==
  LET r == CASE a.type \in {"slide_progress", "recording_progress"} ->
                  process_time_progress(tb, u, a, t)
             [] a.type = "student_progress" -> process_student_progress(tb, u, a, t)
             [] a.type = "quiz_response" -> process_quiz_response(tb, u, a, t)
             [] a.type = "learning_session" -> process_learning_session(tb, u, a, t)
             [] OTHER -> Err(tb, "Unknown activity type")
  IN IF r.kind = "raise" THEN Err(tb, r.error) ELSE r

\* db.query(OfflineActivity).filter(user_id, offline_id).first(): 0 for None
FirstAct(u, oid) ==
  LET hits == {i \in 1..Len(acts) : acts[i].user = u /\ acts[i].offline_id = oid}
  IN IF hits = {} THEN 0 ELSE CHOOSE i \in hits : \A j \in hits : i <= j

\* ------------------------------------------------------------- operations
\* Every handler is one request served to its end; `now` is the reading of
\* datetime.now(timezone.utc) the handler makes.

\* POST /progress/slides/{id} and /progress/recordings/{id}: the online update
UpdateProgressOnline(u, t, s, v, amt, now) ==
  /\ ~cur.active
  /\ calls < MaxCalls
  /\ calls' = calls + 1
  /\ UNCHANGED retries
  /\ progress' = [progress EXCEPT ![<<t, u, s>>] = update_progress(@, v, amt, now)]
  /\ reply' = [op |-> "update"]
  /\ UNCHANGED <<acts, responses, sessions, cur>>

\* OfflineSyncService.store_offline_activity: a new row, pending; the other
\* columns take the defaults of the model class
store_offline_activity(rows, u, t, data, oid) ==
  Append(rows,
         [user |-> u, type |-> t, data |-> data, offline_id |-> oid,
          sync_status |-> "pending", conflict_resolution |-> "server_wins",
          retry_count |-> 0, error |-> "none", synced_at |-> NoTime])

\* POST /sync/activities: the type is checked against valid_types, the data
\* is validated, created_at is set and the row is stored; HTTP 400 otherwise
StoreOfflineActivity(u, t, data, oid, now) ==
  /\ ~cur.active
  /\ calls < MaxCalls
  /\ calls' = calls + 1
  /\ UNCHANGED retries
  /\ IF t \in Types /\ validate_activity_data(t, data)
     THEN /\ acts' = store_offline_activity(
                       acts, u, t, [data EXCEPT !.created_at = now], oid)
          /\ reply' = [op |-> "store", stored |-> TRUE]
     ELSE /\ acts' = acts
          /\ reply' = [op |-> "store", stored |-> FALSE]
  /\ UNCHANGED <<progress, responses, sessions, cur>>

\* the loop of POST /sync/bulk-store over the items from index k on: an item
\* without activity_type or offline_id ("" here), or with invalid data, is an
\* entry of `errors`; the others are stored
RECURSIVE bulk_store(_, _, _, _, _)
bulk_store(acc, u, items, k, now) ==
  IF k > Len(items) THEN acc
  ELSE LET it == items[k]
       IN IF it.type = "" \/ it.offline_id = ""
             \/ ~validate_activity_data(it.type, it.data)
          THEN bulk_store([acc EXCEPT !.errors = @ + 1], u, items, k + 1, now)
          ELSE bulk_store(
                 [acc EXCEPT
                    !.rows = store_offline_activity(
                               @, u, it.type, [it.data EXCEPT !.created_at = now],
                               it.offline_id),
                    !.stored = @ + 1],
                 u, items, k + 1, now)

\* POST /sync/bulk-store
BulkStoreOfflineActivities(u, items, now) ==
  /\ ~cur.active
  /\ calls < MaxCalls
  /\ calls' = calls + 1
  /\ UNCHANGED retries
  /\ LET out == bulk_store([rows |-> acts, stored |-> 0, errors |-> 0],
                           u, items, 1, now)
     IN /\ acts' = out.rows
        /\ reply' = [op |-> "bulk", stored_count |-> out.stored,
                     error_count |-> out.errors]
  /\ UNCHANGED <<progress, responses, sessions, cur>>

\* POST /sync/sync with a batch that passed the route's validation: the
\* SyncSession is created and the loop over the batch starts
SyncBegin(u) ==
  /\ ~cur.active
  /\ calls < MaxCalls
  /\ calls' = calls + 1
  /\ UNCHANGED retries
  /\ cur' = [NoSync EXCEPT
               !.active = TRUE, !.user = u,
               !.prev = IF reply.op = "sync" /\ reply.user = u THEN reply.synced ELSE {}]
  /\ reply' = NoReply
  /\ UNCHANGED <<acts, progress, responses, sessions>>

\* POST /sync/sync with a batch in which an activity fails the route's
\* validation: HTTP 400 before the service is called, for the whole batch
SyncRejected(u, batch) ==
  /\ ~cur.active
  /\ calls < MaxCalls
  /\ calls' = calls + 1
  /\ UNCHANGED retries
  /\ \E k \in 1..Len(batch) : ~validate_activity_data(batch[k].type, batch[k].data)
  /\ reply' = [op |-> "sync_rejected", user |-> u,
               valid |-> Cardinality({k \in 1..Len(batch) :
                           validate_activity_data(batch[k].type, batch[k].data)})]
  /\ UNCHANGED <<acts, progress, responses, sessions, cur>>

\* the OfflineActivity row of the activity is marked with the outcome
MarkAct(rows, i, r, t) ==
  IF i = 0 THEN rows
  ELSE CASE r.kind = "success" ->
              [rows EXCEPT ![i].sync_status = "synced", ![i].synced_at = t]
         [] r.kind = "conflict" ->
              [rows EXCEPT ![i].sync_status = "conflict",
                           ![i].conflict_resolution = "pending"]
         [] OTHER ->
              [rows EXCEPT ![i].sync_status = "failed", ![i].error = r.error,
                           ![i].retry_count = @ + 1]

\* one iteration of `for activity in activities`
SyncActivity(a, now) ==
  /\ cur.active
  /\ cur.count < MaxBatch
  /\ validate_activity_data(a.type, a.data)
  /\ LET u == cur.user
         r == process_offline_activity(Tables, u, a, now)
         i == FirstAct(u, a.offline_id)
     IN /\ progress' = r.tables.progress
        /\ responses' = r.tables.responses
        /\ sessions' = r.tables.sessions
        /\ acts' = MarkAct(acts, i, r, now)
        /\ cur' = [cur EXCEPT
                     !.count = @ + 1,
                     !.synced = IF r.kind = "success" THEN @ \cup {a.offline_id} ELSE @,
                     !.synced_count = IF r.kind = "success" THEN @ + 1 ELSE @,
                     !.conflict_count = IF r.kind = "conflict" THEN @ + 1 ELSE @,
                     !.last = <<[type |-> a.type, subject |-> a.data.subject,
                                 created_at |-> a.data.created_at,
                                 offline_id |-> a.offline_id, kind |-> r.kind,
                                 server_data |-> r.server_data]>>]
  /\ UNCHANGED <<reply, calls, retries>>

\* the end of sync_offline_activities: the SyncSession is updated
SyncEnd ==
  /\ cur.active
  /\ cur.count >= 1
  /\ reply' = [op |-> "sync", user |-> cur.user, synced |-> cur.synced,
               status |-> IF cur.conflict_count = 0 THEN "completed"
                          ELSE "completed_with_conflicts"]
  /\ cur' = NoSync
  /\ UNCHANGED <<acts, progress, responses, sessions, calls, retries>>

\* resolve_conflict, resolution server_wins
resolve_server_wins_unmarked(row, t) ==
  [row EXCEPT !.sync_status = "resolved", !.synced_at = t]

resolve_server_wins(row, t) ==
  [row EXCEPT !.sync_status = "resolved", !.conflict_resolution = "server_wins",
              !.synced_at = t]

\* client_wins and manual: OfflineActivityCreate(**data) is processed again by
\* _process_offline_activity; a ValidationError reaches resolve_conflict's
\* except clause, which marks the row failed and returns False
resolve_reprocess(tb, u, row, data, resolution, default_error, t) ==
  IF OfflineActivityCreate(data) # "ok"
  THEN [returned |-> FALSE, tables |-> tb,
        row |-> [row EXCEPT !.sync_status = "failed",
                            !.error = OfflineActivityCreate(data)]]
  ELSE LET r == process_offline_activity(
                  tb, u, [type |-> row.type, data |-> data.inner[1],
                          offline_id |-> row.offline_id], t)
       IN IF r.kind = "success"
          THEN [returned |-> TRUE, tables |-> r.tables,
                row |-> [row EXCEPT !.sync_status = "resolved",
                                    !.conflict_resolution = resolution,
                                    !.synced_at = t]]
          ELSE [returned |-> TRUE, tables |-> r.tables,
                row |-> [row EXCEPT !.sync_status = "failed",
                                    !.error = IF r.kind = "error" THEN r.error
                                              ELSE default_error]]

\* {**offline_activity.activity_data, **client_data}
Merge(data, client_data) ==
  [subject |-> IF client_data.subject # 0 THEN client_data.subject ELSE data.subject,
   value |-> IF client_data.value # "absent" THEN client_data.value ELSE data.value,
   amount |-> IF client_data.amount # 0 THEN client_data.amount ELSE data.amount,
   created_at |-> IF client_data.created_at # NoTime THEN client_data.created_at
                  ELSE data.created_at,
   inner |-> IF client_data.inner # <<>> THEN client_data.inner ELSE data.inner]

\* resolve_conflict(db, user_id, offline_activity_id, resolution, client_data)
resolve_conflict(tb, u, row, resolution, client_data, t) ==
  CASE resolution = "server_wins" ->
         [returned |-> TRUE, tables |-> tb, row |-> resolve_server_wins(row, t)]
    [] resolution = "client_wins" ->
         resolve_reprocess(tb, u, row, row.data, "client_wins",
                           "Failed to apply client data", t)
    [] resolution = "manual" /\ Keys(client_data) # {} ->
         resolve_reprocess(tb, u, [row EXCEPT !.data = Merge(row.data, client_data)],
                           Merge(row.data, client_data), "manual",
                           "Failed to apply merged data", t)
    [] resolution = "manual" /\ Keys(client_data) = {} ->
         [returned |-> TRUE, tables |-> tb,
          row |-> [row EXCEPT !.sync_status = "failed",
                              !.error = "Manual resolution requires client data"]]
    [] OTHER -> [returned |-> TRUE, tables |-> tb, row |-> row]

\* one iteration of the loop of retry_failed_activities on a failed row: the
\* row is set pending with retry_count + 1 and its activity_data is processed
\* as OfflineActivityCreate(**activity_data); any exception marks it failed
retry_activity(tb, u, row, t) ==
  LET reset == [row EXCEPT !.sync_status = "pending", !.retry_count = @ + 1]
  IN IF OfflineActivityCreate(row.data) # "ok"
     THEN [tables |-> tb, success |-> 0,
           row |-> [reset EXCEPT !.sync_status = "failed",
                                 !.error = OfflineActivityCreate(row.data)]]
     ELSE LET r == process_offline_activity(
                     tb, u, [type |-> row.type, data |-> row.data.inner[1],
                             offline_id |-> row.offline_id], t)
          IN CASE r.kind = "success" ->
                    [tables |-> r.tables, success |-> 1,
                     row |-> [reset EXCEPT !.sync_status = "synced", !.synced_at = t]]
               [] r.kind = "conflict" ->
                    [tables |-> r.tables, success |-> 0,
                     row |-> [reset EXCEPT !.sync_status = "conflict",
                                           !.conflict_resolution = "pending"]]
               [] OTHER ->
                    [tables |-> r.tables, success |-> 0,
                     row |-> [reset EXCEPT !.sync_status = "failed",
                                           !.error = r.error]]

\* the rows retry_failed_activities selects: the failed rows of the user
FailedActs(u) ==
  {i \in 1..Len(acts) : acts[i].user = u /\ acts[i].sync_status = "failed"}

\* the orders in which the query can return them (it has no ORDER BY)
Orders(S) ==
  {f \in [1..Cardinality(S) -> S] : \A a, b \in DOMAIN f : f[a] = f[b] => a = b}

\* `for activity in failed_activities`, from position k of the order on
RECURSIVE retry_all(_, _, _, _, _)
retry_all(acc, u, order, k, t) ==
  IF k > Len(order) THEN acc
  ELSE LET out == retry_activity(acc.tables, u, acc.rows[order[k]], t)
       IN retry_all([tables |-> out.tables,
                     rows |-> [acc.rows EXCEPT ![order[k]] = out.row],
                     retried |-> acc.retried + 1,
                     successful |-> acc.successful + out.success],
                    u, order, k + 1, t)

\* POST /sync/retry and retry_failed_activities
RetryFailedActivities(u, order, now) ==
  /\ ~cur.active
  /\ retries < MaxRetries
  /\ retries' = retries + 1
  /\ order \in Orders(FailedActs(u))
  /\ LET out == retry_all([tables |-> Tables, rows |-> acts, retried |-> 0,
                           successful |-> 0], u, order, 1, now)
     IN /\ acts' = out.rows
        /\ progress' = out.tables.progress
        /\ responses' = out.tables.responses
        /\ sessions' = out.tables.sessions
        /\ reply' = [op |-> "retry", retried |-> out.retried,
                     successful |-> out.successful]
  /\ UNCHANGED <<cur, calls>>

\* POST /sync/conflicts/{activity_id}/resolve: the route rejects a manual
\* resolution without client data, then calls resolve_conflict
ResolveConflict(u, id, resolution, client_data, now) ==
  /\ ~cur.active
  /\ calls < MaxCalls
  /\ calls' = calls + 1
  /\ UNCHANGED retries
  /\ id \in 1..Len(acts)
  /\ resolution = "manual" => Keys(client_data) # {}
  /\ resolution # "manual" => Keys(client_data) = {}
  /\ IF acts[id].user # u
     THEN /\ UNCHANGED <<acts, progress, responses, sessions>>
          /\ reply' = [op |-> "resolve", id |-> id, resolution |-> resolution,
                       client_data |-> client_data, returned |-> FALSE]
     ELSE LET out == resolve_conflict(Tables, u, acts[id], resolution, client_data, now)
          IN /\ acts' = [acts EXCEPT ![id] = out.row]
             /\ progress' = out.tables.progress
             /\ responses' = out.tables.responses
             /\ sessions' = out.tables.sessions
             /\ reply' = [op |-> "resolve", id |-> id, resolution |-> resolution,
                          client_data |-> client_data, returned |-> out.returned]
  /\ UNCHANGED cur

\* the activity types requests of the model are about
InputTypes == {"slide_progress", "quiz_response", "learning_session"}

\* the activities of a sync batch that passed the route's validation
Activities ==
  UNION {[type : {t},
          data : {p \in PlainPayloads(t) : validate_activity_data(t, p)},
          offline_id : OfflineIds] : t \in InputTypes}

\* the activities sent to the store route, one of them of a type that is not
\* in valid_types; the route overwrites created_at; the payloads that wrap an
\* activity are quiz responses
StoreInputs ==
  UNION {[type : {t},
          data : {p \in Payloads(t) :
                    /\ p.created_at = NoTime
                    /\ p.inner # <<>> => t = "quiz_response"},
          offline_id : OfflineIds] : t \in InputTypes \cup {"homework"}}

\* the items of a bulk-store request: a learning session, and the items that
\* differ from it in one place: a missing class_id, a missing session_type, an
\* unknown type, no activity_type ("") or no offline_id ("")
BulkItem ==
  [type |-> "learning_session",
   data |-> [subject |-> 1, value |-> "self_study", amount |-> 0,
             created_at |-> NoTime, inner |-> <<>>],
   offline_id |-> "a"]

BulkItems ==
  {BulkItem,
   [BulkItem EXCEPT !.data.subject = 0],
   [BulkItem EXCEPT !.data.value = "absent"],
   [BulkItem EXCEPT !.type = "homework"],
   [BulkItem EXCEPT !.type = ""],
   [BulkItem EXCEPT !.offline_id = ""]}

BulkRequests == UNION {[1..n -> BulkItems] : n \in 1..MaxBatch}

\* the sync batches with an invalid activity: a learning session without
\* session_type, alone or next to a valid learning session
SyncBatches ==
  UNION {[1..n -> {BulkItem, [BulkItem EXCEPT !.data.value = "absent"]}] :
           n \in 1..MaxBatch}

NoClientData ==
  [subject |-> 0, value |-> "absent", amount |-> 0, created_at |-> NoTime,
   inner |-> <<>>]

\* client_data of a manual resolution: a payload of the row's type
ClientData(t) ==
  {p \in Payloads(t) :
     p.created_at = NoTime /\ p.subject # 0 /\ (p.inner # <<>> => t = "quiz_response")}

Resolutions == {"server_wins", "client_wins", "manual"}

SyncNext ==
  \/ \E u \in Users, s \in Subjects, now \in Times :
        UpdateProgressOnline(u, "slide_progress", s, "completed", 1, now)
  \/ \E u \in Users, a \in StoreInputs, now \in Times :
        StoreOfflineActivity(u, a.type, a.data, a.offline_id, now)
  \/ \E u \in Users, items \in BulkRequests, now \in Times :
        BulkStoreOfflineActivities(u, items, now)
  \/ \E u \in Users : SyncBegin(u)
  \/ \E u \in Users, batch \in SyncBatches : SyncRejected(u, batch)
  \/ \E a \in Activities, now \in Times : SyncActivity(a, now)
  \/ SyncEnd
  \/ \E u \in Users, id \in 1..Len(acts), res \in Resolutions, now \in Times :
        /\ \E cd \in (IF res = "manual" THEN ClientData(acts[id].type)
                      ELSE {NoClientData}) :
             ResolveConflict(u, id, res, cd, now)
  \/ \E u \in Users, now \in Times :
        \E order \in Orders(FailedActs(u)) : RetryFailedActivities(u, order, now)

\* ============================================================ downloads
\* ---------------------------------------------------------------- bounds
MaxDownloadCalls == 3
MaxChunks == 2

\* chunk_size = 1024 * 1024
ChunkSize == 1048576

\* ids of the BundleDownload rows the bounded number of requests can create
DownloadIds == 1..MaxDownloadCalls

\* the requesters: students of the class the bundle belongs to
Students == {1, 2}

\* sizes of a bundle file that is read in at most MaxChunks chunks
FileSizes ==
  {k * ChunkSize : k \in 1..MaxChunks} \cup {(k - 1) * ChunkSize + 1 : k \in 1..MaxChunks}

\* the bundle archive on disk
Files == [exists : BOOLEAN, size : FileSizes]

\* a BundleDownload row as start_bundle_download creates it; no other column
\* is given a value, downloaded_size and access_count start at 0
NewDownload(b, u, size) ==
  [bundle |-> b, student |-> u, total_size |-> size, status |-> "downloading",
   downloaded_size |-> 0, access_count |-> 0]

\* the coroutine download_manager.download_bundle(download.id, path) as
\* asyncio.create_task leaves it: scheduled, nothing copied, no result
NewTransfer == [pc |-> "scheduled", copied |-> 0, result |-> "none"]

DownloadTablesInit ==
  /\ downloads = <<>>
  /\ transfers = <<>>
  /\ offline = <<>>
  /\ dlreply = [op |-> "none"]
  /\ dlcalls = 0

\* db.query(BundleDownload).filter(bundle_id, student_id).first(): 0 for None
ExistingDownload(b, u) ==
  LET hits == {d \in 1..Len(downloads) :
                 downloads[d].bundle = b /\ downloads[d].student = u}
  IN IF hits = {} THEN 0 ELSE CHOOSE d \in hits : \A e \in hits : d <= e

\* bundle.bundle_size: set with the outputs of the bundle, None (0) otherwise
BundleSize(b) == IF bundles[b].outputs = "assembled" THEN file.size ELSE 0

\* POST /downloads/{bundle_id}: 404 / 400 for a bundle that is missing or not
\* COMPLETED; an existing completed row is returned as it is; another
\* existing row is set to downloading; otherwise a row is created and the
\* transfer is started as a task.  Nothing in the handler awaits.
StartBundleDownload(u, b) ==
  /\ dlcalls < MaxDownloadCalls
  /\ dlcalls' = dlcalls + 1
  /\ LET d == ExistingDownload(b, u)
     IN CASE bundles[b].status = "absent" ->
               /\ dlreply' = [op |-> "start", code |-> 404, id |-> 0, created |-> FALSE]
               /\ UNCHANGED <<downloads, transfers, offline>>
          [] bundles[b].status \notin {"absent", "completed"} ->
               /\ dlreply' = [op |-> "start", code |-> 400, id |-> 0, created |-> FALSE]
               /\ UNCHANGED <<downloads, transfers, offline>>
          [] bundles[b].status = "completed" /\ d # 0
               /\ downloads[d].status = "completed" ->
               /\ dlreply' = [op |-> "start", code |-> 200, id |-> d, created |-> FALSE]
               /\ UNCHANGED <<downloads, transfers, offline>>
          [] bundles[b].status = "completed" /\ d # 0
               /\ downloads[d].status # "completed" ->
               /\ downloads' = [downloads EXCEPT ![d].status = "downloading"]
               /\ dlreply' = [op |-> "start", code |-> 200, id |-> d, created |-> FALSE]
               /\ UNCHANGED <<transfers, offline>>
          [] OTHER ->
               /\ downloads' = Append(downloads, NewDownload(b, u, BundleSize(b)))
               /\ transfers' = Append(transfers, NewTransfer)
               /\ offline' = Append(offline, "none")
               /\ dlreply' = [op |-> "start", code |-> 200, id |-> Len(downloads) + 1,
                              created |-> TRUE]
  /\ UNCHANGED file

\* source.read(chunk_size): the bytes of the next chunk
NextChunk(copied) ==
  IF file.size - copied < ChunkSize THEN file.size - copied ELSE ChunkSize

\* download_bundle from its start to the first `await asyncio.sleep(0.1)`:
\* Path(None) raises TypeError for a bundle without bundle_zip_path and a
\* missing file raises FileNotFoundError; both end the coroutine with
\* {"success": False}.  Otherwise the first chunk is copied.  The
\* BundleDownload row is not written.
TransferStart(d) ==
  /\ d \in 1..Len(transfers)
  /\ transfers[d].pc = "scheduled"
  /\ IF bundles[downloads[d].bundle].outputs # "assembled" \/ ~file.exists
     THEN transfers' = [transfers EXCEPT ![d].pc = "done", ![d].result = "failed"]
     ELSE transfers' = [transfers EXCEPT ![d].pc = "copy", ![d].copied = NextChunk(0)]
  /\ UNCHANGED <<downloads, offline, file, dlreply, dlcalls>>

\* one more iteration of `while True` that copies a chunk and sleeps
TransferChunk(d) ==
  /\ d \in 1..Len(transfers)
  /\ transfers[d].pc = "copy"
  /\ NextChunk(transfers[d].copied) > 0
  /\ transfers' = [transfers EXCEPT ![d].copied = @ + NextChunk(@)]
  /\ UNCHANGED <<downloads, offline, file, dlreply, dlcalls>>

\* the iteration that reads the empty chunk: break, then
\* _extract_bundle_for_offline makes the offline directory and extracts the
\* archive into it (zip_ok) or re-raises (a bad archive); the coroutine
\* returns its result dict, which nobody reads
TransferFinish(d, zip_ok) ==
  /\ d \in 1..Len(transfers)
  /\ transfers[d].pc = "copy"
  /\ NextChunk(transfers[d].copied) = 0
  /\ transfers' = [transfers EXCEPT
                     ![d].pc = "done",
                     ![d].result = IF zip_ok THEN "success" ELSE "failed"]
  /\ offline' = [offline EXCEPT ![d] = IF zip_ok THEN "extracted" ELSE "empty"]
  /\ UNCHANGED <<downloads, file, dlreply, dlcalls>>

\* GET /downloads/{download_id}/bundle: 403 for another student's row, 400
\* unless the row is completed, 404 without the file; else the access is
\* counted and the archive is sent
DownloadBundleFile(u, d) ==
  /\ dlcalls < MaxDownloadCalls
  /\ dlcalls' = dlcalls + 1
  /\ d \in 1..Len(downloads)
  /\ LET code == CASE downloads[d].student # u -> 403
                   [] downloads[d].status # "completed" -> 400
                   [] bundles[downloads[d].bundle].outputs # "assembled" -> 404
                   [] ~file.exists -> 404
                   [] OTHER -> 200
     IN /\ downloads' = IF code = 200
                        THEN [downloads EXCEPT ![d].access_count = @ + 1]
                        ELSE downloads
        /\ dlreply' = [op |-> "file", code |-> code, id |-> d, created |-> FALSE]
  /\ UNCHANGED <<transfers, offline, file>>

\* DownloadManager.get_offline_content: None unless the offline directory of
\* the download exists
get_offline_content(d) == IF offline[d] = "none" THEN "None" ELSE offline[d]

\* cleanup_old_downloads_task calls cleanup_old_content(max_age_days=30)
MaxAgeDays == 30

\* age in days of an offline directory (now - st_mtime) when the sweep runs
Ages == {MaxAgeDays - 1, MaxAgeDays, MaxAgeDays + 1}

\* item.stat().st_mtime < cutoff_time
OlderThanCutoff(age) == age > MaxAgeDays

\* the directories the sweep removes: existing ones older than the cutoff
\* (shutil.rmtree succeeding)
Swept(ages) ==
  {d \in 1..Len(offline) : offline[d] # "none" /\ OlderThanCutoff(ages[d])}

\* cleanup_old_downloads_task: OfflineContentManager.cleanup_old_content
\* walks the offline directory and removes every directory older than the
\* cutoff; an rmtree that raises is logged and the directory stays.  The
\* function has no database session: BundleDownload rows are not read or
\* written.
CleanupOldContent(ages, rm_ok) ==
  /\ dlcalls < MaxDownloadCalls
  /\ dlcalls' = dlcalls + 1
  /\ offline' = [d \in 1..Len(offline) |->
                   IF d \in Swept(ages) /\ rm_ok THEN "none" ELSE offline[d]]
  /\ dlreply' = [op |-> "cleanup", ages |-> ages,
                  cleaned |-> IF rm_ok THEN Cardinality(Swept(ages)) ELSE 0]
  /\ UNCHANGED <<downloads, transfers, file>>

DownloadNext ==
  \/ \E u \in Students, b \in Bundles : StartBundleDownload(u, b)
  \/ \E d \in 1..Len(transfers) : TransferStart(d)
  \/ \E d \in 1..Len(transfers) : TransferChunk(d)
  \/ \E d \in 1..Len(transfers), zip_ok \in BOOLEAN : TransferFinish(d, zip_ok)
  \/ \E u \in Students, d \in 1..Len(downloads) : DownloadBundleFile(u, d)
  \/ \E ages \in [1..Len(offline) -> Ages], rm_ok \in BOOLEAN :
       CleanupOldContent(ages, rm_ok)

\* the pipeline after UploadLecture(1) and the run of bundle 1 to its end with
\* every stage completed (FinishCompleted(1, ok)): bundle 1 is COMPLETED, with
\* its outputs when ok
Published(ok) ==
  /\ bundles = [b \in Bundles |->
                  IF b = 1
                  THEN SaveResults([NoBundle EXCEPT !.status = "completed",
                                                    !.progress = One], ok)
                  ELSE NoBundle]
  /\ timelines = [b \in Bundles |-> IF b = 1 /\ ok THEN 1 ELSE 0]
  /\ queue = [r \in Runs |->
                IF r = 1 THEN CreateProcessingTasks ELSE [i \in Stages |-> "none"]]
  /\ runs = [r \in Runs |->
               IF r = 1
               THEN [pc |-> "done", bundle |-> 1, trigger |-> "upload",
                     idx |-> TotalTasks, completed |-> TotalTasks,
                     task |-> [i \in Stages |-> "completed"],
                     err |-> [i \in Stages |-> "none"],
                     started |-> [i \in Stages |-> i],
                     media |-> IF ok THEN "assembled" ELSE "audio"]
               ELSE NoRun]
  /\ loop = 0

\* ============================================================== timeline
\* ---------------------------------------------------------------- bounds
MaxFrames == 4
MaxSlides == 4
MaxDuration == 7

\* change_threshold = 0.3, in percent
ChangeThreshold == 30
\* timestamp = i * (frame_interval / 30.0)
AssumedFps == 30
\* frame_interval = max(1, int(frame_rate * 2))
SampleSeconds == 2
\* "confidence": 0.5 of an estimated entry and 0.3 of a fallback entry, in percent
EstimatedConfidence == 50
FallbackConfidence == 30

VARIABLES
  tl          \* one call of _create_slide_timeline: inputs, position, results

\* ------------------------------------------------------- float arithmetic
\* seconds are kept as fractions <<num, den>> with den > 0
RatOf(n) == <<n, 1>>
RatSub(a, b) == <<a[1] * b[2] - b[1] * a[2], a[2] * b[2]>>
RatAdd(a, b) == <<a[1] * b[2] + b[1] * a[2], a[2] * b[2]>>
RatTimes(a, n) == <<a[1] * n, a[2]>>
RatOver(a, n) == <<a[1], a[2] * n>>

RECURSIVE RatSum(_)
RatSum(s) == IF s = <<>> THEN Zero ELSE RatAdd(Head(s), RatSum(Tail(s)))

\* _format_timestamp: "HH:MM:SS" of int(seconds), kept as the whole number
\* of seconds the string denotes
format_timestamp(seconds) == seconds[1] \div seconds[2]

\* ------------------------------------------------------------ the inputs
\* similarity of a frame to the frame before it, in percent
Sims == {0, 69, 70, 100}
\* r_frame_rate of the video
FrameRates == {25, 30}
Durations == (MaxDuration - 1)..MaxDuration

\* int(frame_rate * 2), at least 1
FrameInterval(rate) == IF rate * SampleSeconds < 1 THEN 1 ELSE rate * SampleSeconds

\* a frame is sampled every SampleSeconds of video, from 0
FramesIn(duration) == duration \div SampleSeconds + 1

\* ----------------------------------------------------- _detect_slide_changes
\* The frames list is kept by its length and, for the frame of index i >= 1,
\* the value sims[i] of _calculate_frame_similarity(previous_frame, frame).
\* Transitions of the frames of index i..n-1, in order.
RECURSIVE TransitionsFrom(_, _, _, _)
TransitionsFrom(i, n, sims, interval) ==
  IF i >= n THEN <<>>
  ELSE (IF sims[i] < 100 - ChangeThreshold
        THEN <<[timestamp |-> <<i * interval, AssumedFps>>,
                frame_index |-> i,
                similarity |-> sims[i],
                confidence |-> 100 - sims[i]]>>
        ELSE <<>>)
       \o TransitionsFrom(i + 1, n, sims, interval)

\* the variant that reports every sampled frame pair
detect_slide_changes_all(extracted, n, sims, interval) ==
  TransitionsFrom(1, n, [i \in 1..(n - 1) |-> 0], interval)

\* _extract_frames returns [] when ffmpeg raises; fewer than 2 frames, or an
\* exception, give []
detect_slide_changes(extracted, n, sims, interval) ==
  IF ~extracted \/ n < 2 THEN <<>> ELSE TransitionsFrom(1, n, sims, interval)

\* ------------------------------------------------------ timeline entries
\* an entry without a "confidence" key
NoConfidence == 0 - 1

Entry(ts, k, dur, conf) ==
  [timestamp |-> format_timestamp(ts), slide_number |-> k, duration |-> dur,
   confidence |-> conf]

\* duration / slide_count if slide_count > 0 else 0
SlideDuration(duration, count) == IF count > 0 THEN RatOver(duration, count) ELSE Zero

\* the equal distribution: slide i (from 0) at i * slide_duration
EqualDistribution(duration, slides, conf) ==
  [k \in 1..slides |->
     Entry(RatTimes(SlideDuration(duration, slides), k - 1), k,
           SlideDuration(duration, slides), conf)]

\* _create_accurate_timeline, the try block
AccurateEntries(T, slides, duration) ==
  LET n == Len(T)
  IN IF slides > n + 1
     THEN LET sd == SlideDuration(RatSub(duration, T[n].timestamp), slides - n)
          IN [k \in 1..n |->
                Entry(T[k].timestamp, k,
                      RatSub(T[k].timestamp,
                             IF k > 1 THEN T[k - 1].timestamp ELSE Zero),
                      T[k].confidence)]
             \o [j \in 1..(slides - n) |->
                   Entry(RatAdd(T[n].timestamp, RatTimes(sd, j)), n + j, sd,
                         EstimatedConfidence)]
     ELSE [k \in 1..(IF n < slides THEN n ELSE slides) |->
             Entry(T[k].timestamp, k,
                   IF k < n THEN RatSub(T[k + 1].timestamp, T[k].timestamp)
                   ELSE RatSub(duration, T[k].timestamp),
                   T[k].confidence)]

\* _create_accurate_timeline: an exception in the try block gives the equal
\* distribution with confidence 0.3
create_accurate_timeline(T, slides, duration, fault) ==
  IF fault THEN EqualDistribution(duration, slides, FallbackConfidence)
  ELSE AccurateEntries(T, slides, duration)

\* ---------------------------------------------------- _create_slide_timeline
NoTimeline ==
  [pc |-> "idle", duration |-> 0, rate |-> 0, slides |-> 0, frames |-> 0,
   sims |-> <<>>, probe_ok |-> TRUE, extracted |-> TRUE, fault |-> FALSE,
   transitions |-> <<>>, timeline |-> <<>>, written |-> FALSE, result |-> "none"]

\* a call: the video (duration, frame rate, probe and extraction succeeding,
\* usable frames and their similarities) and the optimized slides
TimelineCalls ==
  {c \in [pc : {"probe"}, duration : Durations, rate : FrameRates,
          slides : 0..MaxSlides, frames : 0..MaxFrames,
          sims : UNION {[1..m -> Sims] : m \in 0..(MaxFrames - 1)},
          probe_ok : BOOLEAN, extracted : BOOLEAN, fault : BOOLEAN,
          transitions : {<<>>}, timeline : {<<>>}, written : {FALSE},
          result : {"none"}] :
     /\ c.frames <= FramesIn(c.duration)
     /\ Len(c.sims) = (IF c.frames = 0 THEN 0 ELSE c.frames - 1)
     /\ (~c.extracted => c.frames = 0)}

\* ffmpeg.probe: a failure is logged and re-raised by the except clause
ProbeVideo ==
  /\ tl.pc = "probe"
  /\ tl' = IF tl.probe_ok THEN [tl EXCEPT !.pc = "detect"]
           ELSE [tl EXCEPT !.pc = "done", !.result = "raised"]

\* slide_transitions = await self._detect_slide_changes(video_path, frame_interval)
DetectSlideChanges ==
  /\ tl.pc = "detect"
  /\ tl' = [tl EXCEPT
              !.pc = "build",
              !.transitions = detect_slide_changes(tl.extracted, tl.frames, tl.sims,
                                                   FrameInterval(tl.rate))]

\* the branch without transitions: the equal distribution, without a
\* confidence key, is written and returned
BuildEqual ==
  /\ tl.pc = "build"
  /\ tl.transitions = <<>>
  /\ tl' = [tl EXCEPT
              !.pc = "done",
              !.timeline = EqualDistribution(RatOf(tl.duration), tl.slides, NoConfidence),
              !.written = TRUE,
              !.result = "returned"]

\* the branch with transitions: the timeline is written to timeline.json;
\* the return statement then reads slide_count, a local that only the other
\* branch assigns: UnboundLocalError, logged and re-raised
BuildAccurate ==
  /\ tl.pc = "build"
  /\ tl.transitions # <<>>
  /\ tl' = [tl EXCEPT
              !.pc = "done",
              !.timeline = create_accurate_timeline(tl.transitions, tl.slides,
                                                    RatOf(tl.duration), tl.fault),
              !.written = TRUE,
              !.result = "raised"]

TimelineNext ==
  \/ ProbeVideo
  \/ DetectSlideChanges
  \/ BuildEqual
  \/ BuildAccurate

\* ====================================================== concurrent requests
\* The sync routes are plain `def` endpoints: each request runs on a worker
\* thread with a database session of its own, so the statements of two calls
\* of _process_quiz_response interleave.
\* ---------------------------------------------------------------- bounds
MaxWorkers == 2
MaxQuizCalls == 3

VARIABLES
  workers     \* the calls of _process_quiz_response in progress, by thread

Workers == 1..MaxWorkers

\* the callers of _process_offline_activity
Callers == {"sync", "resolve", "retry"}

Answers == ValuesOf("quiz_response")

NoWorker == [pc |-> "idle", via |-> "none", user |-> 0, quiz |-> 0, answer |-> "none"]

WorkersInit == workers = [w \in Workers |-> NoWorker]

\* a caller hands a quiz_response activity with quiz_id and answer to
\* _process_quiz_response
QuizBegin(w, via, u, q, answer) ==
  /\ calls < MaxQuizCalls
  /\ workers[w].pc \in {"idle", "conflict", "synced"}
  /\ workers' = [workers EXCEPT ![w] =
                   [pc |-> "query", via |-> via, user |-> u, quiz |-> q,
                    answer |-> answer]]
  /\ calls' = calls + 1
  /\ UNCHANGED responses

\* existing_response = db.query(Response).filter(...).first(); an existing
\* row makes the call return a conflict
QuizQuery(w) ==
  /\ workers[w].pc = "query"
  /\ workers' = [workers EXCEPT ![w].pc =
                   IF responses[<<workers[w].user, workers[w].quiz>>] # <<>>
                   THEN "conflict" ELSE "insert"]
  /\ UNCHANGED <<responses, calls>>

\* db.add(Response(...)); db.commit(): the table has no unique constraint
\* over (quiz_id, student_id)
QuizInsert(w) ==
  /\ workers[w].pc = "insert"
  /\ responses' = [responses EXCEPT ![<<workers[w].user, workers[w].quiz>>] =
                     Append(@, workers[w].answer)]
  /\ workers' = [workers EXCEPT ![w].pc = "synced"]
  /\ UNCHANGED calls

QuizNext ==
  \/ \E w \in Workers, via \in Callers, u \in Users, q \in Subjects, a \in Answers :
       QuizBegin(w, via, u, q, a)
  \/ \E w \in Workers : QuizQuery(w)
  \/ \E w \in Workers : QuizInsert(w)

\* ======================================================== specifications
vars == <<bundles, timelines, queue, runs, loop,
          acts, progress, responses, sessions, cur, reply, calls, retries,
          downloads, transfers, offline, file, dlreply, dlcalls, tl, workers>>

\* before any upload there is no bundle archive
NoFile == [exists |-> FALSE, size |-> ChunkSize]

Init == PipeInit /\ SyncInit /\ DownloadTablesInit /\ file = NoFile /\ tl = NoTimeline
          /\ WorkersInit

Next ==
  PipeNext /\ UNCHANGED syncVars /\ UNCHANGED dlVars /\ UNCHANGED tl /\ UNCHANGED workers

Spec == Init /\ [][Next]_vars

SyncSpec ==
  Init /\ [][SyncNext /\ UNCHANGED pipeVars /\ UNCHANGED dlVars /\ UNCHANGED tl
                /\ UNCHANGED workers]_vars

DownloadInit ==
  /\ \E ok \in BOOLEAN : Published(ok)
  /\ SyncInit
  /\ DownloadTablesInit
  /\ file \in Files
  /\ tl = NoTimeline
  /\ WorkersInit

\* a scheduled task runs, and a coroutine that sleeps is resumed
DownloadFairness ==
  \A d \in DownloadIds :
    /\ WF_dlVars(TransferStart(d))
    /\ WF_dlVars(TransferChunk(d))
    /\ WF_dlVars(\E zip_ok \in BOOLEAN : TransferFinish(d, zip_ok))

DownloadSpec ==
  /\ DownloadInit
  /\ [][DownloadNext /\ UNCHANGED pipeVars /\ UNCHANGED syncVars /\ UNCHANGED tl
         /\ UNCHANGED workers]_vars
  /\ DownloadFairness

\* one call of _create_slide_timeline for every video and slide list
TimelineInit ==
  /\ PipeInit /\ SyncInit /\ DownloadTablesInit /\ file = NoFile
  /\ WorkersInit
  /\ tl \in TimelineCalls

TimelineSpec ==
  /\ TimelineInit
  /\ [][TimelineNext /\ UNCHANGED pipeVars /\ UNCHANGED syncVars /\ UNCHANGED dlVars
         /\ UNCHANGED workers]_vars

\* concurrent calls of _process_quiz_response
QuizRaceSpec ==
  /\ Init
  /\ [][QuizNext /\ UNCHANGED pipeVars /\ UNCHANGED dlVars /\ UNCHANGED tl
         /\ UNCHANGED <<acts, progress, sessions, cur, reply, retries>>]_vars

\* ------------------------------------------------------- pipeline claims
Range(s) == {s[k] : k \in 1..Len(s)}

ActivePcs == {"mark", "exec", "final"}

\* C1: in every run the stages are started in the fixed order audio, slides,
\* timeline, bundle; a stage is started only after the previous stage of the
\* run completed, no stage is started twice and no two stages of a run are
\* running together.
C1_StagesRunInFixedOrder ==
  \A r \in Runs :
    LET s == runs[r].started
    IN /\ Len(s) <= TotalTasks
       /\ [k \in 1..Len(s) |-> TaskTypes[s[k]]] = SubSeq(TaskTypes, 1, Len(s))
       /\ \A k \in 1..Len(s) : k > 1 => runs[r].task[k - 1] = "completed"
       /\ Cardinality({i \in Stages : runs[r].task[i] = "running"}) <= 1

C1_Witness ==
  \E r \in Runs : runs[r].pc = "done" /\ runs[r].started = <<1, 2, 3, 4>>

\* C2 (as stated): once the audio stage of a run has failed, no persisted
\* slide/timeline/bundle task row of that run has status queued.
C2_NoDownstreamTaskQueued ==
  \A r \in Runs :
    runs[r].task[1] = "failed" => \A i \in 2..TotalTasks : queue[r][i] # "queued"

\* C2 (amended): once the audio stage of a run has failed, the slide, timeline
\* and bundle tasks of that run, created queued at job start, are never started
\* (they stay queued), and the run ends by setting the bundle failed.
C2_DownstreamNeverStarted ==
  /\ [](\A r \in Runs :
          runs[r].task[1] = "failed" =>
            \A i \in 2..TotalTasks :
              /\ runs[r].task[i] = "queued"
              /\ queue[r][i] = "queued"
              /\ i \notin Range(runs[r].started))
  /\ [][\A r \in Runs :
          (runs[r].task[1] = "failed" /\ runs[r].pc = "final" /\ runs'[r].pc = "done")
            => bundles'[runs[r].bundle].status = "failed"]_vars

C2_Witness ==
  \E r \in Runs :
    /\ runs[r].pc = "done"
    /\ runs[r].task[1] = "failed"
    /\ bundles[runs[r].bundle].status = "failed"

StatusRank(st) ==
  CASE st = "absent" -> 0
    [] st = "pending" -> 1
    [] st = "processing" -> 2
    [] OTHER -> 3

\* C3: a bundle's processing_status only moves forward along
\* PENDING -> PROCESSING -> {COMPLETED, FAILED}; a bundle that is COMPLETED or
\* FAILED is never set back to PROCESSING or PENDING.
C3_StatusOnlyAdvances ==
  [][\A b \in Bundles :
       StatusRank(bundles'[b].status) >= StatusRank(bundles[b].status)]_vars

RunningTasks(b) ==
  {ri \in Runs \X Stages :
     /\ runs[ri[1]].bundle = b
     /\ (runs[ri[1]].task[ri[2]] = "running" \/ queue[ri[1]][ri[2]] = "running")}

\* C4: no two ProcessingQueue tasks of one bundle are running at the same
\* time, also when several runs were started for the bundle.
C4_OneRunningTaskPerBundle ==
  \A b \in Bundles : Cardinality(RunningTasks(b)) <= 1

C4_Witness ==
  \E r1, r2 \in Runs :
    /\ r1 # r2
    /\ runs[r1].bundle = runs[r2].bundle
    /\ runs[r1].pc \in {"scheduled", "done"}
    /\ \E i \in Stages : runs[r2].task[i] = "running"

\* C5: a bundle that is COMPLETED has its output fields populated from the
\* assembler's result and a SlideTimeline row.
C5_CompletedHasOutputs ==
  \A b \in Bundles :
    bundles[b].status = "completed" =>
      bundles[b].outputs = "assembled" /\ timelines[b] >= 1

\* C6 (as stated): processing_progress is 1.0 exactly when the bundle is
\* COMPLETED.
C6_ProgressOneExactlyWhenCompleted ==
  \A b \in Bundles :
    RatEq(bundles[b].progress, One) <=> bundles[b].status = "completed"

\* C6 (amended): during a run the bundle's progress equals
\* completed_tasks/total_tasks, stays within [0,1] and never decreases, and a
\* COMPLETED bundle has progress 1.0 (progress already reads 1.0 once the
\* fourth stage has completed, while the bundle is still PROCESSING).
C6_ProgressTracksCompletedTasks ==
  /\ [](/\ \A b \in Bundles :
             /\ RatLeq(Zero, bundles[b].progress)
             /\ RatLeq(bundles[b].progress, One)
             /\ bundles[b].status = "completed" => RatEq(bundles[b].progress, One)
        /\ \A r \in Runs :
             runs[r].pc \in ActivePcs =>
               /\ bundles[runs[r].bundle].progress[1] * TotalTasks
                    = runs[r].completed * bundles[runs[r].bundle].progress[2]
               /\ Cardinality({i \in Stages : runs[r].task[i] = "completed"})
                    = runs[r].completed)
  /\ [][\A r \in Runs :
          (runs[r].pc \in ActivePcs) =>
            RatLeq(bundles[runs[r].bundle].progress, bundles'[runs[r].bundle].progress)]_vars

C6_Witness ==
  \E r \in Runs :
    /\ runs[r].pc = "final"
    /\ runs[r].completed = TotalTasks
    /\ bundles[runs[r].bundle].status = "processing"
    /\ RatEq(bundles[runs[r].bundle].progress, One)

\* C7: when a run ends after a stage task failed, the bundle becomes FAILED and
\* its processing_error is the error message captured on the failing task.
C7_BundleErrorIsStageError ==
  [][\A r \in Runs :
       (/\ runs[r].pc = "final"
        /\ runs'[r].pc = "done"
        /\ \E i \in Stages : runs[r].task[i] = "failed")
         => /\ bundles'[runs[r].bundle].status = "failed"
            /\ \E i \in Stages :
                 /\ runs[r].task[i] = "failed"
                 /\ bundles'[runs[r].bundle].error = runs[r].err[i]]_vars

\* ----------------------------------------------------------- sync claims
\* a step that is one iteration of the sync loop
IsSyncActivity == cur.active /\ cur'.active /\ cur'.count = cur.count + 1

\* a step that serves a resolve request
IsResolve == calls' = calls + 1 /\ reply'.op = "resolve"

\* C8: when an offline_id that the previous batch of the user synced is
\* submitted again in the next batch, the second submission leaves the server
\* tables as they are and is reported as synced.
C8_ResubmissionAppliedOnce ==
  [][(IsSyncActivity /\ cur'.last[1].offline_id \in cur.prev) =>
       /\ progress' = progress
       /\ responses' = responses
       /\ sessions' = sessions
       /\ cur'.last[1].kind = "success"]_vars

\* C9: when a progress activity is synced while the server row of its subject
\* exists with a timestamp at or after the activity's created_at, the activity
\* is classified a conflict (its OfflineActivity row included) and the server
\* row is left as it is.
C9_ServerNewerIsConflict ==
  [][(/\ IsSyncActivity
      /\ cur'.last[1].type \in ProgTypes
      /\ cur'.last[1].created_at # NoTime
      /\ progress[<<cur'.last[1].type, cur.user, cur'.last[1].subject>>].exists
      /\ progress[<<cur'.last[1].type, cur.user, cur'.last[1].subject>>].written
           >= cur'.last[1].created_at) =>
       /\ cur'.last[1].kind = "conflict"
       /\ cur'.conflict_count = cur.conflict_count + 1
       /\ progress' = progress
       /\ LET i == FirstAct(cur.user, cur'.last[1].offline_id)
          IN i # 0 => acts'[i].sync_status = "conflict"]_vars

\* the payload the client recorded offline in a row
ClientPayload(row) == IF row.data.inner # <<>> THEN row.data.inner[1] ELSE row.data

\* the server record of the row's subject holds the row's payload
ServerHolds(tb, row) ==
  LET data == ClientPayload(row)
  IN CASE row.type \in ProgTypes ->
            /\ tb.progress[<<row.type, row.user, data.subject>>].exists
            /\ tb.progress[<<row.type, row.user, data.subject>>].status = data.value
       [] row.type = "quiz_response" ->
            /\ tb.responses[<<row.user, data.subject>>] # <<>>
            /\ tb.responses[<<row.user, data.subject>>]
                 [Len(tb.responses[<<row.user, data.subject>>])] = data.value
       [] OTHER -> TRUE

\* C10: resolving a row that is in conflict with client_wins makes the server
\* record hold the client's offline payload and marks the row resolved with
\* conflict_resolution client_wins.
C10_ClientWinsForceApplies ==
  [][(/\ IsResolve
      /\ reply'.resolution = "client_wins"
      /\ acts[reply'.id].sync_status = "conflict") =>
       /\ acts'[reply'.id].sync_status = "resolved"
       /\ acts'[reply'.id].conflict_resolution = "client_wins"
       /\ ServerHolds([progress |-> progress', responses |-> responses',
                       sessions |-> sessions'], acts[reply'.id])]_vars

\* C11: a resolve request with resolution server_wins leaves every server
\* progress, response and session record as it is; of the OfflineActivity rows
\* only the resolved one changes, and only in sync_status (resolved),
\* conflict_resolution (server_wins) and synced_at (set): its payload is not
\* applied and not altered.
C11_ServerWinsOnlyMarksRow ==
  [][(IsResolve /\ reply'.resolution = "server_wins") =>
       /\ progress' = progress
       /\ responses' = responses
       /\ sessions' = sessions
       /\ acts'[reply'.id].synced_at \in Times
       /\ acts' = [acts EXCEPT ![reply'.id] =
                     [@ EXCEPT !.sync_status = "resolved",
                               !.conflict_resolution = "server_wins",
                               !.synced_at = acts'[reply'.id].synced_at]]]_vars

C11_Witness ==
  /\ reply.op = "resolve"
  /\ reply.resolution = "server_wins"
  /\ LET row == acts[reply.id]
     IN /\ row.sync_status = "resolved"
        /\ row.conflict_resolution = "server_wins"
        /\ row.synced_at # NoTime
        /\ row.type = "quiz_response"
        /\ responses[<<row.user, row.data.subject>>] # <<>>
        /\ responses[<<row.user, row.data.subject>>][1] # row.data.value

\* the server record of a subject holds exactly the given payload
ServerHoldsPayload(tb, t, u, data) ==
  CASE t \in ProgTypes ->
         /\ tb.progress[<<t, u, data.subject>>].exists
         /\ tb.progress[<<t, u, data.subject>>].status = data.value
         /\ tb.progress[<<t, u, data.subject>>].amount = data.amount
    [] t = "quiz_response" ->
         /\ data.subject # 0
         /\ tb.responses[<<u, data.subject>>] # <<>>
         /\ tb.responses[<<u, data.subject>>]
              [Len(tb.responses[<<u, data.subject>>])] = data.value
    [] OTHER -> TRUE

\* C12: resolving a row that is in conflict with resolution manual makes the
\* server record hold exactly the payload the caller supplied and marks the row
\* resolved with conflict_resolution manual.
C12_ManualAppliesCallerPayload ==
  [][(/\ IsResolve
      /\ reply'.resolution = "manual"
      /\ acts[reply'.id].sync_status = "conflict") =>
       /\ acts'[reply'.id].sync_status = "resolved"
       /\ acts'[reply'.id].conflict_resolution = "manual"
       /\ ServerHoldsPayload([progress |-> progress', responses |-> responses',
                              sessions |-> sessions'],
                             acts[reply'.id].type, acts[reply'.id].user,
                             IF reply'.client_data.inner # <<>>
                             THEN reply'.client_data.inner[1]
                             ELSE reply'.client_data)]_vars

\* C13: there is at most one OfflineActivity row per owner and offline_id.
C13_OneRowPerOwnerAndOfflineId ==
  \A i, j \in 1..Len(acts) :
    (acts[i].user = acts[j].user /\ acts[i].offline_id = acts[j].offline_id) => i = j

\* a step that serves a retry request
IsRetry == retries' = retries + 1

\* C14: a retry request changes only rows that are failed, each with
\* retry_count incremented by one, and never a row that was classified a
\* conflict and has not been resolved since (conflict_resolution pending),
\* also when a resolve request on it failed.
C14_RetryOnlyNonConflictFailures ==
  [][IsRetry =>
       \A i \in 1..Len(acts) :
         /\ acts'[i] # acts[i] =>
              /\ acts[i].sync_status = "failed"
              /\ acts'[i].retry_count = acts[i].retry_count + 1
         /\ acts[i].conflict_resolution = "pending" => acts'[i] = acts[i]]_vars

\* a step that ends a sync call: the SyncSession is updated
IsSyncEnd == cur.active /\ ~cur'.active

C16_InvalidActivityDoesNotStopBatch ==
  reply.op = "sync_rejected" => reply.valid = 0

\* the row is of a known type and its payload has the type's required fields
HasRequiredFields(row) ==
  /\ row.type \in Types
  /\ row.data.subject # 0
  /\ row.data.value # "absent"

\* C17: no OfflineActivity row exists for an activity of an unknown type or
\* without a required field of its type; a store request creates a row only
\* when it answers stored, and a bulk-store request creates exactly as many
\* rows as it reports stored, all of them pending.
C17_InvalidActivityNeverStored ==
  /\ [](\A i \in 1..Len(acts) : HasRequiredFields(acts[i]))
  /\ [][/\ (calls' = calls + 1 /\ reply'.op = "store") =>
             /\ Len(acts') = Len(acts) + (IF reply'.stored THEN 1 ELSE 0)
             /\ SubSeq(acts', 1, Len(acts)) = acts
        /\ (calls' = calls + 1 /\ reply'.op = "bulk") =>
             /\ Len(acts') = Len(acts) + reply'.stored_count
             /\ SubSeq(acts', 1, Len(acts)) = acts
             /\ \A i \in (Len(acts) + 1)..Len(acts') :
                  acts'[i].sync_status = "pending"]_vars

C17_Witness ==
  /\ reply.op = "bulk"
  /\ reply.error_count >= 1
  /\ reply.stored_count >= 1
  /\ Len(acts) >= reply.stored_count

\* ------------------------------------------------------- download claims
\* the archive of the download's bundle is on disk
HasBundleFile(d) ==
  /\ d \in 1..Len(downloads)
  /\ bundles[downloads[d].bundle].outputs = "assembled"
  /\ file.exists

Terminal(d) ==
  /\ d \in 1..Len(downloads)
  /\ downloads[d].status \in {"completed", "failed"}

\* C18: a BundleDownload created for an existing bundle file eventually
\* leaves downloading for a terminal status, and a completed one has
\* downloaded_size equal to total_size.
C18_DownloadReachesTerminal ==
  \A d \in DownloadIds :
    [](HasBundleFile(d) =>
         <>(/\ Terminal(d)
            /\ downloads[d].status = "completed"
                 => downloads[d].downloaded_size = downloads[d].total_size))

\* the last request was a repeated start_bundle_download on row d
Resumed(d) ==
  /\ dlreply.op = "start"
  /\ dlreply.code = 200
  /\ ~dlreply.created
  /\ dlreply.id = d

\* C20: there is at most one BundleDownload row per (bundle, requester), and
\* a row that a repeated request resumed is downloading, has a transfer that
\* runs or has finished, and eventually becomes completed or failed.
C20_OneRowAndResumeTerminates ==
  /\ [](\A d, e \in 1..Len(downloads) :
          (downloads[d].bundle = downloads[e].bundle
             /\ downloads[d].student = downloads[e].student) => d = e)
  /\ \A d \in DownloadIds :
       [](Resumed(d) =>
            /\ downloads[d].status = "downloading"
            /\ transfers[d].pc \in {"scheduled", "copy", "done"}
            /\ <>Terminal(d))

\* the coroutine of download d ended on the missing source file: the
\* FileNotFoundError (or TypeError for a bundle without a path) was caught
MissingFileFailure(d) ==
  /\ d \in 1..Len(downloads)
  /\ ~HasBundleFile(d)
  /\ transfers[d].pc = "done"
  /\ transfers[d].result = "failed"

\* C21: a download whose source bundle file is missing ends recorded as
\* failed: once the transfer has ended on the missing file the BundleDownload
\* row has status failed, and no offline directory exists for it.
C21_MissingFileIsRecordedFailure ==
  \A d \in DownloadIds :
    MissingFileFailure(d) =>
      /\ downloads[d].status = "failed"
      /\ offline[d] = "none"

\* a sweep in which no rmtree raised
IsCleanup ==
  /\ dlcalls' = dlcalls + 1
  /\ dlreply'.op = "cleanup"
  /\ dlreply'.cleaned = Cardinality(Swept(dlreply'.ages))

\* C22: the cleanup sweep removes, for every offline directory older than
\* the retention window, the directory and its download record together
\* (afterwards neither exists), and leaves younger items untouched.
C22_SweepRemovesRecordAndDirectory ==
  [][IsCleanup =>
       \A d \in 1..Len(offline) :
         IF offline[d] # "none" /\ OlderThanCutoff(dlreply'.ages[d])
         THEN offline'[d] = "none" /\ d \notin 1..Len(downloads')
         ELSE offline'[d] = offline[d] /\ downloads'[d] = downloads[d]]_vars

\* ------------------------------------------------------- timeline claims
\* the timeline data of the call has been built and written
TimelineBuilt == tl.pc = "done" /\ tl.written

OneEntryPerSlide == Len(tl.timeline) = tl.slides

\* the first entry starts at 0 and each entry starts where the one before ends
Contiguous ==
  /\ tl.timeline # <<>> => tl.timeline[1].timestamp = 0
  /\ \A k \in 1..(Len(tl.timeline) - 1) :
       /\ tl.timeline[k].timestamp < tl.timeline[k + 1].timestamp
       /\ RatEq(RatOf(tl.timeline[k + 1].timestamp),
                RatAdd(RatOf(tl.timeline[k].timestamp), tl.timeline[k].duration))

DurationsSumToTotal ==
  RatEq(RatSum([k \in 1..Len(tl.timeline) |-> tl.timeline[k].duration]),
        RatOf(tl.duration))

\* C23: for every slide list and transition list the timeline built has one
\* entry per slide, its entries are strictly ordered and contiguous from 0,
\* and their durations sum to the total media duration.
C23_TimelineWellFormed ==
  TimelineBuilt => OneEntryPerSlide /\ Contiguous /\ DurationsSumToTotal

\* the call took the branch without transitions and returned
BuiltWithoutTransitions ==
  /\ tl.pc = "done"
  /\ tl.result = "returned"
  /\ tl.transitions = <<>>
  /\ tl.slides >= 1

\* C24: for an empty transition list and slide_count >= 1 the timeline has
\* exactly slide_count entries, each of duration total / slide_count and each
\* flagged with a low confidence.
C24_EmptyTransitionsEqualLowConfidence ==
  BuiltWithoutTransitions =>
    /\ Len(tl.timeline) = tl.slides
    /\ \A k \in 1..Len(tl.timeline) :
         /\ RatEq(RatTimes(tl.timeline[k].duration, tl.slides), RatOf(tl.duration))
         /\ tl.timeline[k].confidence \in {EstimatedConfidence, FallbackConfidence}

\* the transitions are at least slide_count - 1 and the try block ran
BuiltFromEnoughTransitions ==
  /\ TimelineBuilt
  /\ ~tl.fault
  /\ tl.transitions # <<>>
  /\ tl.slides >= 1
  /\ Len(tl.transitions) >= tl.slides - 1

\* C25: with at least slide_count - 1 transitions the entries carry the
\* transition timestamps verbatim, and the duration of the last entry is the
\* total duration minus the timestamp of its transition.
C25_TransitionsVerbatimLastToEnd ==
  BuiltFromEnoughTransitions =>
    /\ tl.timeline # <<>>
    /\ \A k \in 1..Len(tl.timeline) :
         RatEq(RatOf(tl.timeline[k].timestamp), tl.transitions[k].timestamp)
    /\ RatEq(tl.timeline[Len(tl.timeline)].duration,
             RatSub(RatOf(tl.duration), tl.transitions[Len(tl.timeline)].timestamp))

\* an internal failure of the call: ffmpeg.probe raised, the try block of
\* _create_accurate_timeline raised, or the return statement raised
InternalFailure ==
  \/ ~tl.probe_ok
  \/ tl.transitions # <<>>

\* C26: any internal failure while building the timeline ends with the
\* equal distribution at the lowest confidence being returned; the call
\* never ends with an exception.
C26_FailureFallsBackToUniform ==
  tl.pc = "done" =>
    /\ tl.result = "returned"
    /\ InternalFailure =>
         tl.timeline = EqualDistribution(RatOf(tl.duration), tl.slides, FallbackConfidence)

\* _detect_slide_changes has returned
Detected == tl.pc \in {"build", "done"} /\ tl.probe_ok

\* the frame indexes whose similarity to the frame before is below 0.70
ChangedFrames == {i \in 1..(tl.frames - 1) : tl.sims[i] < 100 - ChangeThreshold}

\* C27: _detect_slide_changes returns an empty list when extraction fails or
\* fewer than 2 frames are usable; otherwise it returns exactly one transition
\* for each frame pair with similarity below 0.70, with confidence
\* 1 - similarity, in strictly increasing timestamp order (so at most
\* frames - 1 transitions).
C27_OneTransitionPerChangedPair ==
  Detected =>
    IF ~tl.extracted \/ tl.frames < 2
    THEN tl.transitions = <<>>
    ELSE /\ Len(tl.transitions) = Cardinality(ChangedFrames)
         /\ Len(tl.transitions) <= tl.frames - 1
         /\ {tl.transitions[k].frame_index : k \in 1..Len(tl.transitions)} = ChangedFrames
         /\ \A k \in 1..Len(tl.transitions) :
              /\ tl.transitions[k].similarity = tl.sims[tl.transitions[k].frame_index]
              /\ tl.transitions[k].confidence = 100 - tl.transitions[k].similarity
              /\ tl.transitions[k].timestamp =
                   <<tl.transitions[k].frame_index * FrameInterval(tl.rate), AssumedFps>>
         /\ \A k \in 1..(Len(tl.transitions) - 1) :
              ~RatLeq(tl.transitions[k + 1].timestamp, tl.transitions[k].timestamp)

\* a video with a changed and an unchanged frame pair, one of them exactly at
\* the threshold
C27_Witness ==
  /\ Detected
  /\ tl.frames >= 3
  /\ Len(tl.transitions) >= 1
  /\ Len(tl.transitions) < tl.frames - 1
  /\ \E i \in 1..(tl.frames - 1) : tl.sims[i] = 100 - ChangeThreshold

\* --------------------------------------------------- concurrency claims
\* C29: whatever the interleaving of the calls that process quiz_response
\* activities, there is never more than one Response row per (student, quiz)
\* and an existing Response is never modified.
C29_OneResponsePerStudentAndQuiz ==
  /\ [](\A k \in Users \X Subjects : Len(responses[k]) <= 1)
  /\ [][\A k \in Users \X Subjects :
          responses[k] # <<>> => responses'[k][1] = responses[k][1]]_vars

\* ------------------------------------------------ late pipeline claims
\* run r ends with its media result, and audio extraction was the step of
\* MediaProcessor.process_lecture_bundle that failed
EndsOnAudioFailure(r) ==
  /\ runs[r].pc = "final"
  /\ runs'[r].pc = "done"
  /\ runs'[r].media = "audio"

\* C28: a failed audio extraction halts the bundle: the bundle gets no
\* outputs (no archive) and does not end with processing_status COMPLETED.
C28_AudioFailureHaltsBundle ==
  [][\A r \in Runs :
       EndsOnAudioFailure(r) =>
         /\ bundles'[runs[r].bundle].outputs = "none"
         /\ bundles'[runs[r].bundle].status # "completed"]_vars

\* the moves a persisted task row may make
TaskRowMoves ==
  {<<"none", "queued">>, <<"queued", "running">>, <<"running", "completed">>,
   <<"running", "failed">>}

\* C30: a persisted ProcessingQueue row moves only QUEUED -> RUNNING ->
\* {COMPLETED, FAILED}, and whenever status polling reports overall_progress
\* k/4 for a bundle whose processing has started, it reports
\* tasks_completed = k and total_tasks = 4.
C30_PolledTasksMatchProgress ==
  /\ [][\A r \in Runs, i \in Stages :
          queue'[r][i] # queue[r][i] => <<queue[r][i], queue'[r][i]>> \in TaskRowMoves]_vars
  /\ [](\A b \in Bundles, k \in 0..TotalTasks :
          (/\ CanPoll
           /\ bundles[b].status \in {"processing", "completed", "failed"}
           /\ TasksOf(b) # {}
           /\ RatEq(get_processing_progress(b).overall_progress, <<k, TotalTasks>>))
            => /\ get_processing_progress(b).tasks_completed = k
               /\ get_processing_progress(b).total_tasks = TotalTasks)
====
